---- MODULE Spec2Model ----
(***************************************************************************)
(* Batch enrichment orchestration of the Apollo Enrichment Studio.         *)
(*                                                                         *)
(* Two versions of the React component exist in the repository:            *)
(*   "part_000" : src/unnamed/part_000 (startEnrichment, AbortController)  *)
(*   "studio"   : src/src/ApolloEnrichmentStudio.jsx (enrichContacts)      *)
(* The variable app says which of the two is mounted; the React state of   *)
(* both has the same shape.  One action is the code a handler or an async  *)
(* continuation runs between two awaits.                                   *)
(***************************************************************************)
EXTENDS Integers, Sequences, FiniteSets, TLC

VARIABLES
  app,            \* which component is mounted
  apiKey,         \* useState(''): TRUE when the key is non-empty
  csvData,        \* useState([]): the uploaded contacts, in order
  batchSize,      \* useState(10)
  enrichedData,   \* useState([]): the aggregate shown and exported
  isEnriching,    \* useState(false)
  isPaused,       \* useState(false)
  progress,       \* useState(0): <<num, den>> stands for 100 * num / den
  stats,          \* useState({processed, successful, failed, ...})
  currentBatch,   \* useState(0)
  totalBatches,   \* useState(0)
  controller,     \* enrichmentController.current: "null", "live", "aborted"
  lastLog,        \* useState([]) of logs: the kind of the entry added last
  runs,           \* one record per invocation of the async run function
  exported,       \* the rows of the file exportData downloaded last
  fn              \* the invocation of the serverless function

vars == <<app, apiKey, csvData, batchSize, enrichedData, isEnriching, isPaused,
          progress, stats, currentBatch, totalBatches, controller, lastLog,
          runs, exported, fn>>

\* the state of the component without the file it downloads
uiVars == <<app, apiKey, csvData, batchSize, enrichedData, isEnriching,
            isPaused, progress, stats, currentBatch, totalBatches, controller,
            lastLog, runs>>

----------------------------------------------------------------------------
(* Bounds of the model *)

\* number of times the user starts a run
MaxRuns == 2
\* number of calls, over all runs, answered by another response than RFull
MaxFaults == 1
\* number of rows of an uploaded file
MaxContacts == 6
\* partition: longest contact list and largest batch size below the options
MaxListLen == 7
MaxBatch == 4
\* export: number of entries of an exported aggregate
MaxExportLen == 5
\* serverless function: contacts of one request (one more than the bulk limit)
MaxRequest == 11
\* serverless function: contacts of one request the upstream API does not
\* answer with a person
MaxMisses == 2

(* Program constants *)

\* sampleData has five contacts
SampleSize == 5
\* the options of the batch size <select>
BatchSizes == {5, 10, 25}
DefaultBatchSize == 10
\* enrichContactsBulk is used for 2..10 contacts
BulkLimit == 10

Min(a, b) == IF a < b THEN a ELSE b

\* a contact is identified by its position in the uploaded list
ContactList(n) == [i \in 1..n |-> i]

sampleData == ContactList(SampleSize)

----------------------------------------------------------------------------
(* Entries of the aggregate *)

QualityFields == {"email", "linkedinUrl", "title", "company", "location"}

\* qualityScore of an entry that has no such field
NoScore == -1

\* calculateContactQualityScore of the serverless function, for a person whose
\* email is not verified and who has no phone number and no twitter/github url
calculateContactQualityScore(fields) ==
  LET score ==
          (IF "email" \in fields THEN 20 ELSE 0)
        + (IF "linkedinUrl" \in fields THEN 25 ELSE 0)
        + (IF "title" \in fields THEN 20 ELSE 0)
        + (IF "company" \in fields THEN 15 ELSE 0)
        + (IF "location" \in fields THEN 10 ELSE 0)
  IN Min(100, score)

\* An entry of the aggregate: id is the contact it belongs to, fields the
\* enrichment fields that are non-empty, error whether it has an error message.
\* src records where the entry comes from: "call" (the data of a response) or
\* "synth" (made up by the orchestrator for a failed batch).

\* mapApolloPersonToContact
MatchedEntry(c, fields) ==
  [id |-> c, enrichmentStatus |-> "success", src |-> "call", fields |-> fields,
   error |-> FALSE, qualityScore |-> calculateContactQualityScore(fields)]

\* { ...contact, enrichmentStatus: 'failed', error: 'No match found ...' }
UnmatchedEntry(c) ==
  [id |-> c, enrichmentStatus |-> "failed", src |-> "call", fields |-> {},
   error |-> TRUE, qualityScore |-> NoScore]

\* a null element inside the data array of a response
NullEntry ==
  [id |-> 0, enrichmentStatus |-> "null", src |-> "call", fields |-> {},
   error |-> FALSE, qualityScore |-> NoScore]

\* part_000: { ...contact, enrichmentStatus: 'failed', error: ... }
FailedEntry(c) ==
  [id |-> c, enrichmentStatus |-> "failed", src |-> "synth", fields |-> {},
   error |-> TRUE, qualityScore |-> NoScore]

FailedBatch(batch) == [j \in 1..Len(batch) |-> FailedEntry(batch[j])]

\* studio: { ...contact, title: null, company: null, enrichmentStatus: 'failed',
\*           qualityScore: 0 }
MockEntry(c) ==
  [id |-> c, enrichmentStatus |-> "failed", src |-> "synth", fields |-> {},
   error |-> FALSE, qualityScore |-> 0]

mockBatch(batch) == [j \in 1..Len(batch) |-> MockEntry(batch[j])]

RECURSIVE CountStatus(_, _)
CountStatus(s, status) ==
  IF s = <<>> THEN 0
  ELSE (IF s[1].enrichmentStatus = status THEN 1 ELSE 0)
       + CountStatus(Tail(s), status)

RECURSIVE FilterStatus(_, _)
FilterStatus(s, status) ==
  IF s = <<>> THEN <<>>
  ELSE (IF s[1].enrichmentStatus = status THEN <<s[1]>> ELSE <<>>)
       \o FilterStatus(Tail(s), status)

----------------------------------------------------------------------------
(* calculateQualityScore *)

FieldScore(e) ==
    (IF "email" \in e.fields THEN 30 ELSE 0)
  + (IF "linkedinUrl" \in e.fields THEN 25 ELSE 0)
  + (IF "title" \in e.fields THEN 20 ELSE 0)
  + (IF "company" \in e.fields THEN 15 ELSE 0)
  + (IF "location" \in e.fields THEN 10 ELSE 0)

RECURSIVE SumScores(_)
SumScores(s) == IF s = <<>> THEN 0 ELSE FieldScore(s[1]) + SumScores(Tail(s))

\* Math.round of a non-negative quotient a / b
RoundDiv(a, b) == (2 * a + b) \div (2 * b)

calculateQualityScore(enrichedContacts) ==
  IF Len(enrichedContacts) = 0 THEN 0
  ELSE RoundDiv(SumScores(enrichedContacts), Len(enrichedContacts))

----------------------------------------------------------------------------
(* Partition into batches *)

\* slice with the end index included
SliceInclusive(s, from, to) == SubSeq(s, from + 1, Min(to + 1, Len(s)))

\* Array.prototype.slice(from, to) with 0-based bounds
Slice(s, from, to) == SubSeq(s, from + 1, Min(to, Len(s)))

RECURSIVE BatchesFrom(_, _, _)
BatchesFrom(contacts, size, i) ==
  IF i < Len(contacts)
  THEN <<Slice(contacts, i, i + size)>> \o BatchesFrom(contacts, size, i + size)
  ELSE <<>>

\* part_000: for (let i = 0; i < csvData.length; i += batchSize) batches.push(...)
Batches(contacts, size) == BatchesFrom(contacts, size, 0)

----------------------------------------------------------------------------
(* Responses of the external call *)

\* apiCalls reported by the serverless function for a request of n contacts
FnApiCalls(n) == IF n > 1 /\ n <= BulkLimit THEN 1 ELSE n

\* result.stats of a response, as the studio component reads it
StatsOf(data) ==
  [successfulEnrichments |-> CountStatus(data, "success"),
   failedEnrichments |-> CountStatus(data, "failed")]

Response(tag, success, hasData, data, apiCalls, hasStats) ==
  [tag |-> tag, success |-> success, hasData |-> hasData, data |-> data,
   apiCalls |-> apiCalls, hasStats |-> hasStats, stats |-> StatsOf(data)]

\* fetch rejects, or the status is not OK
RThrow == Response("throw", FALSE, FALSE, <<>>, 0, FALSE)

AllMatched(batch) == [j \in 1..Len(batch) |-> MatchedEntry(batch[j], QualityFields)]

\* every contact matched
RFull(batch) ==
  Response("full", TRUE, TRUE, AllMatched(batch), FnApiCalls(Len(batch)), TRUE)

\* the first contact is not matched, the others are; apiCalls is not reported
RPartial(batch) ==
  Response("partial", TRUE, TRUE,
           [j \in 1..Len(batch) |->
              IF j = 1 THEN UnmatchedEntry(batch[j])
              ELSE MatchedEntry(batch[j], {"email", "title"})],
           0, TRUE)

\* a 200 answer that says success: false
RRefused == Response("refused", FALSE, FALSE, <<>>, 0, FALSE)

\* a success answer whose data array has null as its last element
RMalformed(batch) ==
  Response("malformed", TRUE, TRUE,
           [j \in 1..Len(batch) |->
              IF j = Len(batch) THEN NullEntry
              ELSE MatchedEntry(batch[j], QualityFields)],
           0, TRUE)

\* the answer of the repository's serverless function when every contact is
\* matched: { success, data, apiCalls, message }, without a stats field
RNoStats(batch) ==
  Response("nostats", TRUE, TRUE, AllMatched(batch), FnApiCalls(Len(batch)), FALSE)

\* the responses the model lets a call of the component a have
Responses(a, batch) ==
  IF a = "part_000"
  THEN {RThrow, RFull(batch), RPartial(batch), RRefused, RMalformed(batch)}
  ELSE {RThrow, RFull(batch), RPartial(batch), RRefused, RNoStats(batch)}

\* the response has one result per submitted contact, in submission order
WellFormed(resp, batch) ==
  resp.success /\ resp.hasData =>
    /\ Len(resp.data) = Len(batch)
    /\ \A j \in 1..Len(batch) : resp.data[j].id = batch[j]

----------------------------------------------------------------------------
(* The run function: locals of one invocation *)

\* the locals of one invocation of startEnrichment / enrichContacts, as they
\* are when the invocation issues its first call.  pausedSeen is the isPaused
\* the closure of enrichContacts captured.  Three fields record the history of
\* the run: hist (the tag of the response of every batch finished), pausedAt
\* (the number of batches the run had started when a pause was first requested
\* during it, 0 when none was) and report (the final log line).
NewRun(contacts, size, paused) ==
  [contacts |-> contacts, batches |-> Batches(contacts, size),
   pc |-> "call", batchIndex |-> 0,
   results |-> <<>>, successCount |-> 0, failCount |-> 0, apiCallCount |-> 0,
   pausedSeen |-> paused, hist |-> <<>>, pausedAt |-> 0, report |-> "none"]

RunBatches(run) == run.batches

\* the number of calls of the runs rs answered by another response than RFull
RECURSIVE Faults(_)
Faults(rs) ==
  IF rs = <<>> THEN 0
  ELSE Cardinality({j \in 1..Len(rs[1].hist) : rs[1].hist[j] # "full"})
       + Faults(Tail(rs))

\* a pause is requested: its place in the history of the active runs
NotePause(rs) ==
  [r \in 1..Len(rs) |->
     IF rs[r].pc # "done" /\ rs[r].pausedAt = 0
     THEN [rs[r] EXCEPT !.pausedAt = rs[r].batchIndex + 1]
     ELSE rs[r]]

\* batches[batchIndex]
CurrentBatchOf(run) == RunBatches(run)[run.batchIndex + 1]

\* the state the run function sets
Shown == [stats |-> stats, progress |-> progress, currentBatch |-> currentBatch,
          enrichedData |-> enrichedData, isEnriching |-> isEnriching,
          isPaused |-> isPaused]

ZeroStats ==
  [processed |-> 0, successful |-> 0, failed |-> 0, qualityScore |-> 0,
   apiCalls |-> 0, creditsUsed |-> 0]

\* the serverless function before a request: no key, no contacts, no upstream
\* call issued, no response
FnIdle ==
  [pc |-> "idle", hasKey |-> FALSE, contacts |-> <<>>, enrichedContacts |-> <<>>,
   totalApiCalls |-> 0, calls |-> <<>>, upstream |-> <<>>,
   response |-> [status |-> 0, success |-> FALSE, data |-> <<>>, apiCalls |-> 0]]

\* the kind of the entry a continuation of the run function logs last: the
\* announcement of the batch it starts, the final report, or the outcome of
\* the batch it finished
LastLogOf(run) ==
  IF run.pc = "call" THEN "batch"
  ELSE IF run.pc = "done" /\ run.report # "none" THEN run.report
  ELSE "result"

----------------------------------------------------------------------------
(* part_000: startEnrichment *)

\* index of the first null element of data, Len(data) + 1 when there is none
RECURSIVE FirstNull(_, _)
FirstNull(data, j) ==
  IF j > Len(data) THEN j
  ELSE IF data[j].enrichmentStatus = "null" THEN j
  ELSE FirstNull(data, j + 1)

\* try block: the await of enrichContactsBatch and the merge of its result.
\* threw says that control left the block with an exception.
TryBatch(run, batch, resp) ==
  IF resp.tag = "throw"
  THEN [run |-> run, threw |-> TRUE]
  ELSE
    LET counted == [run EXCEPT !.apiCallCount =
                      @ + (IF resp.apiCalls # 0 THEN resp.apiCalls ELSE 1)]
    IN IF resp.success /\ resp.hasData
       THEN LET n      == FirstNull(resp.data, 1)
                pushed == SubSeq(resp.data, 1, n - 1)
                ok     == CountStatus(pushed, "success")
            IN [run |-> [counted EXCEPT
                           !.successCount = @ + ok,
                           !.failCount = @ + (Len(pushed) - ok),
                           !.results = @ \o pushed],
                threw |-> n <= Len(resp.data)]
       ELSE [run |-> [counted EXCEPT
                        !.failCount = @ + Len(batch),
                        !.results = @ \o FailedBatch(batch)],
             threw |-> FALSE]

\* a catch block that also counts the failed call
CatchBatchCountsCall(run, batch) ==
  [run EXCEPT !.results = @ \o FailedBatch(batch),
              !.failCount = @ + Len(batch),
              !.apiCallCount = @ + 1]

\* catch block of a batch
CatchBatch(run, batch) ==
  [run EXCEPT !.results = @ \o FailedBatch(batch),
              !.failCount = @ + Len(batch)]

\* setStats and setProgress at the end of the try block
ShowBatch(run, g) ==
  [g EXCEPT !.stats = [@ EXCEPT !.processed = Len(run.results),
                                !.successful = run.successCount,
                                !.failed = run.failCount,
                                !.apiCalls = run.apiCallCount,
                                !.creditsUsed = run.apiCallCount],
            !.progress = <<Len(run.results), Len(run.contacts)>>]

\* the code after the loop: setEnrichedData, the quality score, the final log
\* line and setIsEnriching(false)
Finish(run, g) ==
  [run |-> [run EXCEPT !.pc = "done",
                       !.report = IF controller = "aborted" THEN "paused"
                                  ELSE "completed"],
   g   |-> [g EXCEPT !.enrichedData = run.results,
                     !.stats = [@ EXCEPT !.qualityScore =
                        calculateQualityScore(FilterStatus(run.results, "success"))],
                     !.isEnriching = FALSE]]

\* the signal checked at the top of an iteration
Aborted == controller = "aborted"

\* top of the iteration for run.batchIndex: leave the loop when the batches
\* are exhausted or the signal is aborted, else issue the call of the batch
Iterate(run, g) ==
  IF run.batchIndex < Len(RunBatches(run)) /\ ~Aborted
  THEN [run |-> [run EXCEPT !.pc = "call"],
        g   |-> [g EXCEPT !.currentBatch = run.batchIndex + 1]]
  ELSE Finish(run, g)

\* a continuation that leaves the loop when the batch failed
AfterCallStopsOnFailure(run, resp) ==
  LET batch == CurrentBatchOf(run)
      tried == TryBatch([run EXCEPT !.hist = Append(@, resp.tag)], batch, resp)
  IN IF tried.threw
     THEN Finish(CatchBatch(tried.run, batch), Shown)
     ELSE LET g == ShowBatch(tried.run, Shown)
          IN IF run.batchIndex < Len(RunBatches(run)) - 1
             THEN [run |-> [tried.run EXCEPT !.pc = "delay"], g |-> g]
             ELSE Iterate([tried.run EXCEPT !.batchIndex = @ + 1], g)

\* the continuation of the await of enrichContactsBatch, up to the next await
AfterCall(run, resp) ==
  LET batch == CurrentBatchOf(run)
      tried == TryBatch([run EXCEPT !.hist = Append(@, resp.tag)], batch, resp)
  IN IF tried.threw
     THEN Iterate([CatchBatch(tried.run, batch) EXCEPT !.batchIndex = @ + 1], Shown)
     ELSE LET g == ShowBatch(tried.run, Shown)
          IN IF run.batchIndex < Len(RunBatches(run)) - 1
             THEN [run |-> [tried.run EXCEPT !.pc = "delay"], g |-> g]
             ELSE Iterate([tried.run EXCEPT !.batchIndex = @ + 1], g)

\* a delay after which the loop issues the call of the same batch again
AfterDelayRepeatsBatch(run) == Iterate(run, Shown)

\* the continuation of the inter-batch delay
AfterDelay(run) == Iterate([run EXCEPT !.batchIndex = @ + 1], Shown)

Show(g) ==
  /\ stats' = g.stats
  /\ progress' = g.progress
  /\ currentBatch' = g.currentBatch
  /\ enrichedData' = g.enrichedData
  /\ isEnriching' = g.isEnriching
  /\ isPaused' = g.isPaused

\* the Start/Pause button is enabled
ButtonEnabled == apiKey /\ csvData # <<>>

\* click on Start: startEnrichment up to its first await
startEnrichment ==
  /\ app = "part_000"
  /\ ButtonEnabled /\ ~isEnriching
  /\ Len(runs) < MaxRuns
  /\ LET run == NewRun(csvData, batchSize, isPaused)
     IN /\ runs' = Append(runs, run)
        /\ totalBatches' = Len(RunBatches(run))
  /\ isEnriching' = TRUE
  /\ isPaused' = FALSE
  /\ progress' = <<0, 1>>
  /\ currentBatch' = 1
  /\ stats' = [stats EXCEPT !.processed = 0, !.successful = 0, !.failed = 0,
                            !.apiCalls = 0, !.creditsUsed = 0]
  /\ controller' = "live"
  /\ lastLog' = "batch"
  /\ UNCHANGED <<app, apiKey, csvData, batchSize, enrichedData>>
  /\ UNCHANGED <<exported, fn>>

\* a validation placed after the resets of startEnrichment
startEnrichmentInvalidAfterResets ==
  /\ app = "part_000"
  /\ ~isEnriching
  /\ ~apiKey \/ csvData = <<>>
  /\ isEnriching' = TRUE
  /\ isPaused' = FALSE
  /\ progress' = <<0, 1>>
  /\ currentBatch' = 0
  /\ stats' = [stats EXCEPT !.processed = 0, !.successful = 0, !.failed = 0,
                            !.apiCalls = 0, !.creditsUsed = 0]
  /\ lastLog' = "validation"
  /\ UNCHANGED <<app, apiKey, csvData, batchSize, enrichedData, totalBatches,
                 controller, runs>>
  /\ UNCHANGED <<exported, fn>>

\* startEnrichment invoked while the key or the list is empty (the button is
\* disabled then): the validation at its top logs an error and returns
startEnrichmentInvalid ==
  /\ app = "part_000"
  /\ ~isEnriching
  /\ ~apiKey \/ csvData = <<>>
  /\ lastLog' = "validation"
  /\ UNCHANGED <<app, apiKey, csvData, batchSize, enrichedData, isEnriching,
                 isPaused, progress, stats, currentBatch, totalBatches,
                 controller, runs>>
  /\ UNCHANGED <<exported, fn>>

\* the call of run r returns, with any of the responses
CallReturns(r) ==
  /\ app = "part_000"
  /\ runs[r].pc = "call"
  /\ \E resp \in Responses(app, CurrentBatchOf(runs[r])) :
       LET out == AfterCall(runs[r], resp)
       IN /\ runs' = [runs EXCEPT ![r] = out.run]
          /\ Faults(runs') <= MaxFaults
          /\ Show(out.g)
          /\ lastLog' = LastLogOf(out.run)
  /\ UNCHANGED <<app, apiKey, csvData, batchSize, totalBatches, controller>>
  /\ UNCHANGED <<exported, fn>>

\* the delay of run r elapses
DelayElapses(r) ==
  /\ app = "part_000"
  /\ runs[r].pc = "delay"
  /\ LET out == AfterDelay(runs[r])
     IN /\ runs' = [runs EXCEPT ![r] = out.run]
        /\ Show(out.g)
        /\ lastLog' = LastLogOf(out.run)
  /\ UNCHANGED <<app, apiKey, csvData, batchSize, totalBatches, controller>>
  /\ UNCHANGED <<exported, fn>>

\* click on Pause
pauseEnrichment ==
  /\ app = "part_000"
  /\ ButtonEnabled /\ isEnriching
  /\ controller' = IF controller # "null" THEN "aborted" ELSE controller
  /\ isPaused' = TRUE
  /\ isEnriching' = FALSE
  /\ runs' = NotePause(runs)
  /\ lastLog' = "pause"
  /\ UNCHANGED <<app, apiKey, csvData, batchSize, enrichedData, progress, stats,
                 currentBatch, totalBatches>>
  /\ UNCHANGED <<exported, fn>>

----------------------------------------------------------------------------
(* studio: enrichContacts *)

\* a quotient rounded down instead of up
CeilDivTruncates(a, b) == a \div b

\* Math.ceil(a / b)
CeilDiv(a, b) == (a + b - 1) \div b

\* const batches = Math.ceil(csvData.length / batchSize), and for every i
\* csvData.slice(i * batchSize, (i + 1) * batchSize)
StudioBatches(contacts, size) ==
  [k \in 1..CeilDiv(Len(contacts), size) |->
     Slice(contacts, (k - 1) * size, k * size)]

NewStudioRun(contacts, size, paused) ==
  [NewRun(contacts, size, paused) EXCEPT !.batches = StudioBatches(contacts, size)]

\* try block of a batch: the fetch and the merge of its result
StudioTry(batch, resp, g) ==
  IF resp.tag = "throw" \/ ~resp.success
  THEN [g |-> g, threw |-> TRUE]
  ELSE LET merged == [g EXCEPT !.enrichedData = @ \o resp.data]
       IN IF ~resp.hasStats
          THEN [g |-> merged, threw |-> TRUE]
          ELSE [g |-> [merged EXCEPT !.stats = [@ EXCEPT
                         !.processed = @ + Len(batch),
                         !.successful = @ + resp.stats.successfulEnrichments,
                         !.failed = @ + resp.stats.failedEnrichments,
                         !.apiCalls = @ + 1,
                         !.creditsUsed = @ + Len(batch)]],
                threw |-> FALSE]

\* catch block of a batch
StudioCatch(batch, g) ==
  [g EXCEPT !.enrichedData = @ \o mockBatch(batch),
            !.stats = [@ EXCEPT !.processed = @ + Len(batch),
                                !.failed = @ + Len(batch)]]

\* the code after the loop and the finally block
StudioFinish(run, g, broke) ==
  [run |-> [run EXCEPT !.pc = "done",
                       !.report = IF ~run.pausedSeen THEN "completed"
                                  ELSE IF broke THEN "paused" ELSE "none"],
   g   |-> [g EXCEPT !.isEnriching = FALSE, !.isPaused = FALSE]]

\* top of the iteration for run.batchIndex
StudioIterate(run, g) ==
  IF run.batchIndex < Len(run.batches)
  THEN IF run.pausedSeen
       THEN StudioFinish(run, g, TRUE)
       ELSE [run |-> [run EXCEPT !.pc = "call"],
             g   |-> [g EXCEPT !.currentBatch = run.batchIndex + 1]]
  ELSE StudioFinish(run, g, FALSE)

\* the continuation of the await of fetch, up to the next await
StudioAfterCall(run, resp) ==
  LET batch == CurrentBatchOf(run)
      tried == StudioTry(batch, resp, Shown)
      g1    == IF tried.threw THEN StudioCatch(batch, tried.g) ELSE tried.g
      g2    == [g1 EXCEPT !.progress = <<run.batchIndex + 1, Len(run.batches)>>]
      run1  == [run EXCEPT !.hist = Append(@, resp.tag)]
  IN IF run.batchIndex < Len(run.batches) - 1
     THEN [run |-> [run1 EXCEPT !.pc = "delay"], g |-> g2]
     ELSE StudioIterate([run1 EXCEPT !.batchIndex = @ + 1], g2)

StudioAfterDelay(run) == StudioIterate([run EXCEPT !.batchIndex = @ + 1], Shown)

\* click on Start: enrichContacts up to its first await
enrichContacts ==
  /\ app = "studio"
  /\ ButtonEnabled /\ ~isEnriching
  /\ Len(runs) < MaxRuns
  /\ LET run == NewStudioRun(csvData, batchSize, isPaused)
         out == StudioIterate(run, [Shown EXCEPT !.isEnriching = TRUE,
                                                 !.enrichedData = <<>>,
                                                 !.progress = <<0, 1>>,
                                                 !.currentBatch = 0])
     IN /\ runs' = Append(runs, out.run)
        /\ totalBatches' = Len(run.batches)
        /\ Show(out.g)
        /\ lastLog' = LastLogOf(out.run)
  /\ UNCHANGED <<app, apiKey, csvData, batchSize, controller>>
  /\ UNCHANGED <<exported, fn>>

\* enrichContacts invoked while the key or the list is empty (the button is
\* disabled then): the validation at its top logs a warning and returns
enrichContactsInvalid ==
  /\ app = "studio"
  /\ ~isEnriching
  /\ ~apiKey \/ csvData = <<>>
  /\ lastLog' = "validation"
  /\ UNCHANGED <<app, apiKey, csvData, batchSize, enrichedData, isEnriching,
                 isPaused, progress, stats, currentBatch, totalBatches,
                 controller, runs>>
  /\ UNCHANGED <<exported, fn>>

\* the fetch of run r returns, with any of the responses
StudioCallReturns(r) ==
  /\ app = "studio"
  /\ runs[r].pc = "call"
  /\ \E resp \in Responses(app, CurrentBatchOf(runs[r])) :
       LET out == StudioAfterCall(runs[r], resp)
       IN /\ runs' = [runs EXCEPT ![r] = out.run]
          /\ Faults(runs') <= MaxFaults
          /\ Show(out.g)
          /\ lastLog' = LastLogOf(out.run)
  /\ UNCHANGED <<app, apiKey, csvData, batchSize, totalBatches, controller>>
  /\ UNCHANGED <<exported, fn>>

\* the delay of run r elapses
StudioDelayElapses(r) ==
  /\ app = "studio"
  /\ runs[r].pc = "delay"
  /\ LET out == StudioAfterDelay(runs[r])
     IN /\ runs' = [runs EXCEPT ![r] = out.run]
        /\ Show(out.g)
        /\ lastLog' = LastLogOf(out.run)
  /\ UNCHANGED <<app, apiKey, csvData, batchSize, totalBatches, controller>>
  /\ UNCHANGED <<exported, fn>>

\* click on Pause / Resume
pauseEnrichmentStudio ==
  /\ app = "studio"
  /\ ButtonEnabled /\ isEnriching
  /\ isPaused' = ~isPaused
  /\ runs' = NotePause(runs)
  /\ lastLog' = "pause"
  /\ UNCHANGED <<app, apiKey, csvData, batchSize, enrichedData, isEnriching,
                 progress, stats, currentBatch, totalBatches, controller>>
  /\ UNCHANGED <<exported, fn>>

----------------------------------------------------------------------------
(* Handlers common to both components *)

\* typing into the API key input; the user settles the key and the batch size
\* before the first run
setApiKey(k) ==
  /\ runs = <<>>
  /\ apiKey' = k
  /\ UNCHANGED <<app, csvData, batchSize, enrichedData, isEnriching, isPaused,
                 progress, stats, currentBatch, totalBatches, controller,
                 lastLog, runs>>
  /\ UNCHANGED <<exported, fn>>

setBatchSize(b) ==
  /\ runs = <<>>
  /\ batchSize' = b
  /\ UNCHANGED <<app, apiKey, csvData, enrichedData, isEnriching, isPaused,
                 progress, stats, currentBatch, totalBatches, controller,
                 lastLog, runs>>
  /\ UNCHANGED <<exported, fn>>

loadSampleData ==
  /\ csvData' = sampleData
  /\ lastLog' = "loaded"
  /\ UNCHANGED <<app, apiKey, batchSize, enrichedData, isEnriching, isPaused,
                 progress, stats, currentBatch, totalBatches, controller, runs>>
  /\ UNCHANGED <<exported, fn>>

\* a file of n valid rows is uploaded
handleFileUpload(n) ==
  /\ csvData' = ContactList(n)
  /\ lastLog' = "loaded"
  /\ UNCHANGED <<app, apiKey, batchSize, enrichedData, isEnriching, isPaused,
                 progress, stats, currentBatch, totalBatches, controller, runs>>
  /\ UNCHANGED <<exported, fn>>

\* a cell of the exported file that holds nothing
EmptyCell == [empty |-> TRUE, value |-> 0]

\* row[field] || '' for the qualityScore column: an absent field and the
\* number 0 are both falsy and give the empty string
ExportCell(v) ==
  IF v = NoScore \/ v = 0 THEN EmptyCell ELSE [empty |-> FALSE, value |-> v]

\* one row of the file: the contact's own columns and enrichmentStatus are
\* non-empty strings and are written as they are; of the enrichment columns
\* the non-empty ones are written, null, absent and '' all give ''
ExportRow(e) ==
  [id |-> e.id, enrichmentStatus |-> e.enrichmentStatus, fields |-> e.fields,
   qualityScore |-> ExportCell(e.qualityScore)]

\* click on Export (the button is disabled while enrichedData is empty)
exportData ==
  /\ enrichedData # <<>>
  /\ exported' = [i \in 1..Len(enrichedData) |-> ExportRow(enrichedData[i])]
  /\ lastLog' = "exported"
  /\ UNCHANGED <<app, apiKey, csvData, batchSize, enrichedData, isEnriching,
                 isPaused, progress, stats, currentBatch, totalBatches,
                 controller, runs, fn>>

clearData ==
  /\ csvData' = <<>>
  /\ enrichedData' = <<>>
  /\ progress' = <<0, 1>>
  /\ stats' = ZeroStats
  /\ lastLog' = "cleared"
  /\ UNCHANGED <<app, apiKey, batchSize, isEnriching, isPaused, currentBatch,
                 totalBatches, controller, runs>>
  /\ UNCHANGED <<exported, fn>>

----------------------------------------------------------------------------
Init ==
  /\ app \in {"part_000", "studio"}
  /\ apiKey = FALSE
  /\ csvData = <<>>
  /\ batchSize = DefaultBatchSize
  /\ enrichedData = <<>>
  /\ isEnriching = FALSE
  /\ isPaused = FALSE
  /\ progress = <<0, 1>>
  /\ stats = ZeroStats
  /\ currentBatch = 0
  /\ totalBatches = 0
  /\ controller = "null"
  /\ lastLog = "none"
  /\ runs = <<>>
  /\ exported = <<>>
  /\ fn = FnIdle

Next ==
  \/ startEnrichment
  \/ startEnrichmentInvalid
  \/ \E r \in 1..Len(runs) : CallReturns(r)
  \/ \E r \in 1..Len(runs) : DelayElapses(r)
  \/ pauseEnrichment
  \/ enrichContacts
  \/ enrichContactsInvalid
  \/ \E r \in 1..Len(runs) : StudioCallReturns(r)
  \/ \E r \in 1..Len(runs) : StudioDelayElapses(r)
  \/ pauseEnrichmentStudio
  \/ \E k \in BOOLEAN : setApiKey(k)
  \/ \E b \in BatchSizes : setBatchSize(b)
  \/ handleFileUpload(MaxContacts)
  \/ clearData

Spec == Init /\ [][Next]_vars

Active(r) == runs[r].pc # "done"

\* the number of batches the run has started
Started(run) == IF run.pc = "done" THEN Len(run.hist) ELSE run.batchIndex + 1

\* the run has processed all its batches
Exhausted(run) == Len(run.hist) = Len(run.batches)

\* the step finishes a batch of run r
FinishesBatch(r) == Len(runs'[r].hist) = Len(runs[r].hist) + 1

\* the step ends run r
Ends(r) == runs[r].pc # "done" /\ runs'[r].pc = "done"

RunIds == 1..Len(runs)

----------------------------------------------------------------------------
(* C1: in part_000, under every interleaving of Start and Pause clicks with *)
(* call completions and delays, at most one batch loop is active, so at most *)
(* one external call is in flight.                                           *)
C1_OneLoopAtATime ==
  app = "part_000" => Cardinality({r \in RunIds : Active(r)}) <= 1

(* C2: in part_000, a run that had started pausedAt batches when pause was   *)
(* requested never starts a later batch, and no contact of a later batch     *)
(* reaches its results.                                                      *)
C2_PausedRunStartsNoBatch ==
  \A r \in RunIds :
    (app = "part_000" /\ runs[r].pausedAt > 0) =>
      /\ Started(runs[r]) <= runs[r].pausedAt
      /\ \A i \in 1..Len(runs[r].results) :
           \E k \in 1..runs[r].pausedAt :
             \E j \in 1..Len(runs[r].batches[k]) :
               runs[r].results[i].id = runs[r].batches[k][j]

(* C3: in part_000, every step that finishes a batch, whether its call       *)
(* succeeded or failed, increases stats.processed by the length of the batch. *)
C3_ProcessedGrowsByBatch ==
  [][\A r \in RunIds :
       (app = "part_000" /\ FinishesBatch(r)) =>
         stats'.processed = stats.processed + Len(CurrentBatchOf(runs[r]))]_vars

(* C4: in both components, when a run ends having processed all its batches  *)
(* and is reported completed, stats.processed is the number of contacts of   *)
(* the run.                                                                  *)
C4_ProcessedIsNWhenCompleted ==
  [][\A r \in RunIds :
       (Ends(r) /\ Exhausted(runs'[r]) /\ runs'[r].report = "completed") =>
         stats'.processed = Len(runs[r].contacts)]_vars

\* the response of the component a to batch that has the tag
ResponseTagged(a, batch, tag) == CHOOSE resp \in Responses(a, batch) : resp.tag = tag

\* every call of the run was answered with one result per submitted contact,
\* in submission order, or failed
AnsweredWell(run) ==
  \A k \in 1..Len(run.hist) :
    WellFormed(ResponseTagged(app, run.batches[k], run.hist[k]), run.batches[k])

Tags(run) == {run.hist[k] : k \in 1..Len(run.hist)}

\* the aggregate of run r: the local results of startEnrichment, enrichedData
\* for enrichContacts
AggregateOf(r) == IF app = "part_000" THEN runs[r].results ELSE enrichedData
AggregateOfNext(r) == IF app = "part_000" THEN runs'[r].results ELSE enrichedData'

(* C5: when a run of startEnrichment ends having processed all its batches   *)
(* without a pause, and every successful call returned one result per        *)
(* submitted contact in order, enrichedData has one entry per contact of the *)
(* run and entry i belongs to contact i, whatever calls failed.              *)
C5_AggregateInInputOrder ==
  [][\A r \in RunIds :
       (/\ app = "part_000"
        /\ Ends(r)
        /\ Exhausted(runs'[r])
        /\ runs'[r].pausedAt = 0
        /\ AnsweredWell(runs'[r])) =>
         /\ Len(enrichedData') = Len(runs[r].contacts)
         /\ \A i \in 1..Len(runs[r].contacts) :
              enrichedData'[i].id = runs[r].contacts[i]]_vars

\* a run of two batches, one failed and one answered, has ended unpaused and
\* its results are the aggregate
C5_Witness ==
  \E r \in RunIds :
    /\ app = "part_000"
    /\ runs[r].pc = "done"
    /\ Exhausted(runs[r])
    /\ runs[r].pausedAt = 0
    /\ Tags(runs[r]) = {"throw", "full"}
    /\ enrichedData = runs[r].results
    /\ Len(enrichedData) = Len(runs[r].contacts)

(* C6: in both components, whatever the response, a step that finishes a     *)
(* batch appends to the aggregate exactly one entry per contact of the       *)
(* batch, in batch order, all taken from the response or all synthesized.    *)
C6_BatchMergedOnceAndWhole ==
  [][\A r \in RunIds :
       FinishesBatch(r) =>
         LET batch  == CurrentBatchOf(runs[r])
             before == AggregateOf(r)
             after  == AggregateOfNext(r)
         IN /\ Len(after) = Len(before) + Len(batch)
            /\ SubSeq(after, 1, Len(before)) = before
            /\ \A j \in 1..Len(batch) : after[Len(before) + j].id = batch[j]
            /\ \A i, j \in (Len(before) + 1)..Len(after) :
                 after[i].src = after[j].src]_vars

(* C7: in both components, a step that finishes a batch whose call failed    *)
(* (network error or non-OK status) appends one failed entry per contact of  *)
(* the batch, in batch order, adds the batch length to stats.failed and      *)
(* leaves stats.successful unchanged.                                        *)
C7_FailedBatchCounted ==
  [][\A r \in RunIds :
       (FinishesBatch(r) /\ runs'[r].hist[Len(runs'[r].hist)] = "throw") =>
         LET batch  == CurrentBatchOf(runs[r])
             before == AggregateOf(r)
             after  == AggregateOfNext(r)
         IN /\ Len(after) = Len(before) + Len(batch)
            /\ SubSeq(after, 1, Len(before)) = before
            /\ \A j \in 1..Len(batch) :
                 /\ after[Len(before) + j].id = batch[j]
                 /\ after[Len(before) + j].enrichmentStatus = "failed"
            /\ stats'.failed = stats.failed + Len(batch)
            /\ stats'.successful = stats.successful]_vars

(* C8: in both components a failed call never ends the run: a run during     *)
(* which no pause was requested ends only when all its batches have been     *)
(* processed, one after the other, and is then reported completed; while it  *)
(* is active it has processed exactly the batches before the current one.    *)
C8_FailureDoesNotEndRun ==
  \A r \in RunIds :
    /\ runs[r].pc = "done" /\ runs[r].pausedAt = 0 =>
         Exhausted(runs[r]) /\ runs[r].report = "completed"
    /\ runs[r].pc # "done" =>
         /\ runs[r].batchIndex < Len(runs[r].batches)
         /\ Len(runs[r].hist) =
              runs[r].batchIndex + (IF runs[r].pc = "delay" THEN 1 ELSE 0)

\* a run whose first call failed has processed its second batch and ended
\* reported completed
C8_Witness ==
  \E r \in RunIds :
    /\ runs[r].pc = "done"
    /\ runs[r].pausedAt = 0
    /\ Len(runs[r].hist) = 2
    /\ runs[r].hist[1] = "throw"
    /\ runs[r].report = "completed"

----------------------------------------------------------------------------
(* The scenario of 23 contacts in batches of 10, run by startEnrichment      *)
(* against the serverless function, without pause                            *)

InitScenario ==
  /\ app = "part_000"
  /\ apiKey = TRUE
  /\ csvData = ContactList(23)
  /\ batchSize = DefaultBatchSize
  /\ enrichedData = <<>>
  /\ isEnriching = FALSE
  /\ isPaused = FALSE
  /\ progress = <<0, 1>>
  /\ stats = ZeroStats
  /\ currentBatch = 0
  /\ totalBatches = 0
  /\ controller = "null"
  /\ lastLog = "none"
  /\ runs = <<>>
  /\ exported = <<>>
  /\ fn = FnIdle

NextScenario ==
  \/ startEnrichment
  \/ \E r \in 1..Len(runs) : CallReturns(r)
  \/ \E r \in 1..Len(runs) : DelayElapses(r)

SpecScenario == InitScenario /\ [][NextScenario]_vars

\* the latest run has ended, its first and third call answered with every
\* contact matched and its second call failed
ScenarioDone(r) ==
  /\ r = Len(runs)
  /\ runs[r].pc = "done"
  /\ runs[r].hist = <<"full", "throw", "full">>

BatchSizesOf(run) == [k \in 1..Len(run.batches) |-> Len(run.batches[k])]

(* C9, as stated: after the scenario the statistics are processed = 23,      *)
(* failed = 10, successful = 13, apiCalls = 3 and the run is completed.      *)
C9_ScenarioAsStated ==
  \A r \in RunIds :
    ScenarioDone(r) =>
      /\ BatchSizesOf(runs[r]) = <<10, 10, 3>>
      /\ stats.processed = 23
      /\ stats.failed = 10
      /\ stats.successful = 13
      /\ stats.apiCalls = 3
      /\ runs[r].report = "completed"

(* C9, amended: after the scenario the statistics are processed = 23,        *)
(* failed = 10, successful = 13, apiCalls = 2 (the failed call is not        *)
(* counted) and the run is completed.                                        *)
C9_ScenarioAmended ==
  \A r \in RunIds :
    ScenarioDone(r) =>
      /\ BatchSizesOf(runs[r]) = <<10, 10, 3>>
      /\ stats.processed = 23
      /\ stats.failed = 10
      /\ stats.successful = 13
      /\ stats.apiCalls = 2
      /\ runs[r].report = "completed"

C9_Witness == \E r \in RunIds : ScenarioDone(r) /\ Len(enrichedData) = 23

----------------------------------------------------------------------------
\* the contacts the run has merged results for
Processed(run) == {run.results[i].id : i \in 1..Len(run.results)}

\* the contacts the run issues calls for
Submitted(run) ==
  UNION {{run.batches[k][j] : j \in 1..Len(run.batches[k])} :
           k \in 1..Len(run.batches)}

(* C10: in part_000, the start that follows a paused run over the same list  *)
(* issues calls only for the contacts the paused run has not processed, and  *)
(* keeps the statistics of the paused run.                                   *)
C10_ResumeContinues ==
  [][(/\ app = "part_000"
      /\ Len(runs) >= 1
      /\ Len(runs') = Len(runs) + 1
      /\ runs[Len(runs)].pausedAt > 0
      /\ runs[Len(runs)].contacts = csvData) =>
        /\ Submitted(runs'[Len(runs')]) \cap Processed(runs[Len(runs)]) = {}
        /\ stats' = stats]_vars

----------------------------------------------------------------------------
\* the contacts of the first k batches of the run, in order
RECURSIVE FirstBatches(_, _)
FirstBatches(run, k) ==
  IF k = 0 THEN <<>> ELSE FirstBatches(run, k - 1) \o run.batches[k]

\* the step issues the call of a further batch of run r
IssuesNextCall(r) ==
  /\ runs[r].pc # "done"
  /\ runs'[r].pc = "call"
  /\ runs'[r].batchIndex > runs[r].batchIndex

(* C11: in part_000, when a run ends during which a pause was requested     *)
(* while batch k was the current one, the aggregate retained (enrichedData) *)
(* is the results of the run and holds one entry per contact of batches     *)
(* 1..k, in order: the call in flight was awaited and merged, no later one. *)
C11_PausedRunKeepsBatchesUpToK ==
  [][\A r \in RunIds :
       (app = "part_000" /\ Ends(r) /\ runs[r].pausedAt > 0) =>
         LET kept == FirstBatches(runs[r], runs[r].pausedAt)
         IN /\ enrichedData' = runs'[r].results
            /\ Len(enrichedData') = Len(kept)
            /\ \A i \in 1..Len(kept) : enrichedData'[i].id = kept[i]]_vars

(* C12: in the studio component, while isPaused is set during a run, the    *)
(* loop starts no further batch and the run is not reported completed.      *)
C12_StudioPauseObserved ==
  [][\A r \in RunIds :
       (app = "studio" /\ isPaused) =>
         /\ ~IssuesNextCall(r)
         /\ ~(Ends(r) /\ runs'[r].report = "completed")]_vars

(* C13: in both components, from the start of the latest run until its      *)
(* first batch is merged, the aggregate is empty and processed, successful, *)
(* failed, apiCalls and creditsUsed are all 0.                              *)
C13_NewRunStartsFromZero ==
  \A r \in RunIds :
    (r = Len(runs) /\ runs[r].pc # "done" /\ runs[r].hist = <<>>) =>
      /\ AggregateOf(r) = <<>>
      /\ stats.processed = 0
      /\ stats.successful = 0
      /\ stats.failed = 0
      /\ stats.apiCalls = 0
      /\ stats.creditsUsed = 0

(* C16: in every reachable state of part_000, stats.qualityScore is an      *)
(* integer in 0..100 and is 0 whenever stats.successful is 0.               *)
C16_QualityScoreZeroWithoutSuccess ==
  app = "part_000" =>
    /\ stats.qualityScore \in 0..100
    /\ stats.successful = 0 => stats.qualityScore = 0

\* the step moves an existing run forward or notes a pause; it starts no run
\* and is not clearData
RunStep == runs' # runs /\ Len(runs') = Len(runs)

(* C17: in part_000, no step other than the start of a run or clearData     *)
(* decreases processed, successful, failed, apiCalls or creditsUsed.        *)
C17_CountersNeverDecrease ==
  [][(app = "part_000" /\ RunStep) =>
       /\ stats'.processed >= stats.processed
       /\ stats'.successful >= stats.successful
       /\ stats'.failed >= stats.failed
       /\ stats'.apiCalls >= stats.apiCalls
       /\ stats'.creditsUsed >= stats.creditsUsed]_vars

(* C18: in part_000, a run that has ended having processed all its batches  *)
(* is reported completed, not paused, whenever a pause was requested.       *)
C18_ExhaustedRunReportsCompleted ==
  \A r \in RunIds :
    (app = "part_000" /\ runs[r].pc = "done" /\ Exhausted(runs[r])) =>
      runs[r].report = "completed"

(* C19: in part_000, a step that finishes a batch that is not the last one  *)
(* leaves the run waiting for the inter-batch delay, whether the call       *)
(* succeeded or failed; a step that finishes the last batch ends the run.   *)
C19_DelayBetweenBatches ==
  [][\A r \in RunIds :
       (app = "part_000" /\ FinishesBatch(r)) =>
         IF runs[r].batchIndex < Len(runs[r].batches) - 1
         THEN runs'[r].pc = "delay"
         ELSE runs'[r].pc = "done"]_vars

(* C20: in both components, after a step that finishes a batch, progress is *)
(* 100 times the number of contacts merged into the aggregate over the     *)
(* number of contacts of the run, and it is 100 when the run ends having    *)
(* processed all its batches and reported completed.                        *)
C20_ProgressIsMergedShare ==
  [][\A r \in RunIds :
       /\ FinishesBatch(r) =>
            progress'[1] * Len(runs[r].contacts)
              = Len(AggregateOfNext(r)) * progress'[2]
       /\ (Ends(r) /\ Exhausted(runs'[r]) /\ runs'[r].report = "completed") =>
            progress'[1] = progress'[2]]_vars

(* C14: in both components, a request to run made while the key or the     *)
(* list is empty only adds a log entry: no run is started, no call issued,  *)
(* and isEnriching, isPaused, progress, currentBatch, totalBatches, stats   *)
(* and the aggregate are left as they were.                                 *)
C14_InvalidRequestOnlyLogs ==
  [][lastLog' = "validation" =>
       UNCHANGED <<isEnriching, isPaused, progress, currentBatch, totalBatches,
                   stats, enrichedData, controller, runs>>]_vars

\* a request made with the key set and the list emptied by clearData, after
\* a run, has been rejected
C14_Witness ==
  /\ lastLog = "validation"
  /\ apiKey /\ csvData = <<>>
  /\ runs # <<>>
  /\ ~isEnriching

----------------------------------------------------------------------------
(* Partition of a list of 1..MaxListLen contacts into batches of any size,  *)
(* by both components, without pause                                        *)

InitPartition ==
  /\ app \in {"part_000", "studio"}
  /\ apiKey = TRUE
  /\ csvData \in {ContactList(n) : n \in 1..MaxListLen}
  /\ batchSize \in (1..MaxBatch) \cup BatchSizes
  /\ enrichedData = <<>>
  /\ isEnriching = FALSE
  /\ isPaused = FALSE
  /\ progress = <<0, 1>>
  /\ stats = ZeroStats
  /\ currentBatch = 0
  /\ totalBatches = 0
  /\ controller = "null"
  /\ lastLog = "none"
  /\ runs = <<>>
  /\ exported = <<>>
  /\ fn = FnIdle

NextPartition ==
  \/ startEnrichment
  \/ \E r \in 1..Len(runs) : CallReturns(r)
  \/ \E r \in 1..Len(runs) : DelayElapses(r)
  \/ enrichContacts
  \/ \E r \in 1..Len(runs) : StudioCallReturns(r)
  \/ \E r \in 1..Len(runs) : StudioDelayElapses(r)

SpecPartition == InitPartition /\ [][NextPartition]_vars

(* C15: for a list of N >= 1 contacts and a batch size B >= 1, a run of     *)
(* either component has ceil(N/B) batches, batch i is the slice of contacts *)
(* (i-1)*B .. min(i*B, N)-1, every batch holds 1..B contacts, all but the   *)
(* last hold B, the batches concatenated are the list, and a run that ends  *)
(* has processed exactly these batches.                                     *)
C15_Partition ==
  \A r \in RunIds :
    LET N == Len(runs[r].contacts)
        B == batchSize
        b == runs[r].batches
    IN /\ Len(b) * B >= N /\ (Len(b) - 1) * B < N
       /\ totalBatches = Len(b)
       /\ \A i \in 1..Len(b) :
            /\ Len(b[i]) = Min(i * B, N) - (i - 1) * B
            /\ \A j \in 1..Len(b[i]) : b[i][j] = runs[r].contacts[(i - 1) * B + j]
            /\ Len(b[i]) \in 1..B
            /\ i < Len(b) => Len(b[i]) = B
       /\ FirstBatches(runs[r], Len(b)) = runs[r].contacts
       /\ runs[r].pc = "done" => Len(runs[r].hist) = Len(b)
       /\ runs[r].pc # "done" => runs[r].batchIndex < Len(b)

\* a run of enrichContacts over 7 contacts in batches of 3 has ended after
\* three batches, the last of one contact
C15_Witness ==
  \E r \in RunIds :
    /\ app = "studio"
    /\ runs[r].pc = "done"
    /\ Len(runs[r].contacts) = 7 /\ batchSize = 3
    /\ Len(runs[r].hist) = 3
    /\ Len(runs[r].batches[3]) = 1

----------------------------------------------------------------------------
(* C21: in both components, every entry of the aggregate whose              *)
(* enrichmentStatus is 'failed' carries an error message, whether it came   *)
(* from the serverless function or was synthesized for a failed batch.      *)
C21_FailedEntriesCarryError ==
  \A i \in 1..Len(enrichedData) :
    enrichedData[i].enrichmentStatus = "failed" => enrichedData[i].error

\* the sum of the qualityScore fields the entries carry
RECURSIVE SumCarried(_)
SumCarried(s) == IF s = <<>> THEN 0 ELSE s[1].qualityScore + SumCarried(Tail(s))

\* the rounded mean of the qualityScore fields the entries carry, 0 for none
MeanCarried(s) == IF s = <<>> THEN 0 ELSE RoundDiv(SumCarried(s), Len(s))

(* C22: in part_000, when the loop of a run has ended, by exhaustion or by  *)
(* pause, stats.qualityScore is the rounded mean of the qualityScore        *)
(* carried by the successful entries of the aggregate, 0 when there is none. *)
C22_QualityScoreIsMeanOfCarried ==
  [][\A r \in RunIds :
       (app = "part_000" /\ Ends(r)) =>
         stats'.qualityScore =
           MeanCarried(FilterStatus(enrichedData', "success"))]_vars

\* the tag of the response of the batch the step finishes
FinishedTag(r) == runs'[r].hist[Len(runs'[r].hist)]

(* C23: in part_000, a step that finishes a batch whose call succeeded with *)
(* every contact matched increases creditsUsed by the size of the batch and *)
(* apiCalls by the number of calls the response reports.                    *)
C23_CreditsGrowByBatchSize ==
  [][\A r \in RunIds :
       (app = "part_000" /\ FinishesBatch(r) /\ FinishedTag(r) = "full") =>
         LET batch == CurrentBatchOf(runs[r])
         IN /\ stats'.creditsUsed = stats.creditsUsed + Len(batch)
            /\ stats'.apiCalls = stats.apiCalls + FnApiCalls(Len(batch))]_vars

(* C27: in part_000, isEnriching is true in every state in which a batch    *)
(* loop is active, its call in flight or its delay pending.                 *)
C27_EnrichingWhileLoopActive ==
  app = "part_000" => ((\E r \in RunIds : Active(r)) => isEnriching)

(* C28: in every reachable state of part_000, stats.successful +            *)
(* stats.failed = stats.processed, and when no run is active and the latest *)
(* run was reported completed, stats.processed is the number of entries of  *)
(* enrichedData.                                                            *)
C28_CountsAddUp ==
  app = "part_000" =>
    /\ stats.successful + stats.failed = stats.processed
    /\ (/\ runs # <<>>
        /\ \A r \in RunIds : ~Active(r)
        /\ runs[Len(runs)].report = "completed") =>
         stats.processed = Len(enrichedData)

(* C29: in both components, while the list is empty, that is from clearData *)
(* until the next upload, and so before any new run can start, the          *)
(* aggregate is empty and progress and all statistics are 0, also when a    *)
(* run was in progress at clearData.                                        *)
C29_ClearedStaysCleared ==
  csvData = <<>> =>
    /\ enrichedData = <<>>
    /\ progress[1] = 0
    /\ stats = ZeroStats

----------------------------------------------------------------------------
(* Every call eventually returns or fails and every delay elapses *)

\* some run is active: the call of a run can return, or its delay elapse
Running == \E r \in 1..Len(runs) : Active(r)

\* the step is the return of the call of a run or the end of its delay: these
\* are the steps of Next that change the position of a run
RunProgresses ==
  \E r \in 1..Len(runs) :
    \/ runs'[r].pc # runs[r].pc
    \/ runs'[r].batchIndex # runs[r].batchIndex
    \/ runs'[r].hist # runs[r].hist

\* weak fairness of the returns and delays, WF_vars(RunProgresses), written
\* out with Running for ENABLED <<RunProgresses>>_vars: a step of a run is
\* possible exactly when a run is active
SpecFair == Spec /\ ([]<>(~Running) \/ []<><<RunProgresses>>_vars)

\* run r has been started
Exists(r) == r <= Len(runs)

(* C30: in both components, with or without a pause and whatever the call   *)
(* outcomes, every started run ends; it has then issued at most one call    *)
(* per batch, the step that ends it sets isEnriching to false, and          *)
(* isEnriching becomes true again only by the start of a run.               *)
C30_EveryRunTerminates ==
  /\ \A r \in 1..MaxRuns : Exists(r) ~> (Exists(r) /\ runs[r].pc = "done")
  /\ [][/\ \A r \in RunIds :
             /\ Len(runs'[r].hist) <= Len(runs[r].batches)
             /\ Ends(r) => ~isEnriching'
        /\ (isEnriching' /\ ~isEnriching) => Len(runs') = Len(runs) + 1]_vars

\* a run of two batches, paused, one of its calls failed, has ended and
\* isEnriching is false
C30_Witness ==
  \E r \in RunIds :
    /\ runs[r].pc = "done"
    /\ Len(runs[r].batches) = 2
    /\ runs[r].pausedAt > 0
    /\ "throw" \in Tags(runs[r])
    /\ ~isEnriching

----------------------------------------------------------------------------
(* Export of an aggregate made of failed entries *)

\* the failed entry the component a synthesizes for contact c
SynthEntry(a, c) == IF a = "part_000" THEN FailedEntry(c) ELSE MockEntry(c)

\* the aggregates of 1..MaxExportLen failed entries the component a can hold:
\* each entry synthesized for a failed batch or returned unmatched by a call
FailedAggregates(a) ==
  UNION {{[i \in 1..k |-> IF kinds[i] = "synth" THEN SynthEntry(a, i)
                          ELSE UnmatchedEntry(i)] :
            kinds \in [1..k -> {"synth", "call"}]} :
         k \in 1..MaxExportLen}

InitExport ==
  /\ app \in {"part_000", "studio"}
  /\ apiKey = TRUE
  /\ enrichedData \in FailedAggregates(app)
  /\ csvData = ContactList(Len(enrichedData))
  /\ batchSize = DefaultBatchSize
  /\ isEnriching = FALSE
  /\ isPaused = FALSE
  /\ progress = <<1, 1>>
  /\ stats = [ZeroStats EXCEPT !.processed = Len(enrichedData),
                               !.failed = Len(enrichedData)]
  /\ currentBatch = 1
  /\ totalBatches = 1
  /\ controller = "null"
  /\ lastLog = "completed"
  /\ runs = <<>>
  /\ exported = <<>>
  /\ fn = FnIdle

NextExport == exportData

SpecExport == InitExport /\ [][NextExport]_vars

(* C26: for an aggregate of failed entries, the exported file has one row   *)
(* per entry, in aggregate order, and every column holds the value the      *)
(* entry has for it, an absent or null field being written as empty, in     *)
(* both components.                                                         *)
C26_ExportKeepsValues ==
  exported # <<>> =>
    /\ Len(exported) = Len(enrichedData)
    /\ \A i \in 1..Len(enrichedData) :
         /\ exported[i].id = enrichedData[i].id
         /\ exported[i].enrichmentStatus = enrichedData[i].enrichmentStatus
         /\ exported[i].fields = enrichedData[i].fields
         /\ exported[i].qualityScore =
              IF enrichedData[i].qualityScore = NoScore THEN EmptyCell
              ELSE [empty |-> FALSE, value |-> enrichedData[i].qualityScore]

----------------------------------------------------------------------------
(* The serverless function apollo-enrichment.mts: one invocation.           *)
(* fn.calls is the list of upstream calls issued so far, each by the number *)
(* of contacts it carries; fn.upstream is what the upstream API answered.   *)

\* the routing without the upper limit
useBulkAPIAnySize(n) == n > 1

\* const useBulkAPI = contacts.length > 1 && contacts.length <= 10
useBulkAPI(n) == n > 1 /\ n <= BulkLimit

\* the answers of the bulk endpoint to a call of n contacts: a failure (non-OK
\* status or rejected fetch), a body without a matches array, or a matches
\* array of len elements of which those at the indexes in misses hold no person
BulkAnswers(n) ==
  {[kind |-> "error", len |-> 0, misses |-> {}],
   [kind |-> "nomatches", len |-> 0, misses |-> {}]}
  \cup {[kind |-> "matches", len |-> k, misses |-> m] :
          k \in 0..(n + 1),
          m \in {x \in SUBSET (1..(n + 1)) : Cardinality(x) <= MaxMisses}}

BulkTag(n, up) ==
  IF up.kind # "matches" THEN up.kind
  ELSE IF up.len < n THEN "short"
  ELSE IF up.len > n THEN "long"
  ELSE "exact"

\* the loop of enrichContactsBulk run over the matches array
enrichContactsBulkOverMatches(contacts, up) ==
  IF up.kind = "matches"
  THEN [i \in 1..Min(up.len, Len(contacts)) |->
          IF i \notin up.misses
          THEN MatchedEntry(contacts[i], QualityFields)
          ELSE UnmatchedEntry(contacts[i])]
  ELSE [i \in 1..Len(contacts) |-> UnmatchedEntry(contacts[i])]

\* enrichContactsBulk after an OK response: one record per contact
enrichContactsBulk(contacts, up) ==
  IF up.kind = "matches"
  THEN [i \in 1..Len(contacts) |->
          IF i <= up.len /\ i \notin up.misses
          THEN MatchedEntry(contacts[i], QualityFields)
          ELSE UnmatchedEntry(contacts[i])]
  ELSE [i \in 1..Len(contacts) |-> UnmatchedEntry(contacts[i])]

\* the record of one contact on the one-by-one path: enrichSingleContact's
\* result, or the record the handler pushes when it throws
SingleEntry(c, outcome) ==
  IF outcome = "person" THEN MatchedEntry(c, QualityFields)
  ELSE IF outcome = "bare" THEN MatchedEntry(c, {})
  ELSE UnmatchedEntry(c)

Misses(seq) == Cardinality({i \in 1..Len(seq) : seq[i] # "person"})

\* POST with a readable body: validation, routing, first upstream call
FnRequest(hasKey, n) ==
  /\ fn.pc = "idle"
  /\ IF ~hasKey \/ n = 0
     THEN fn' = [fn EXCEPT !.pc = "done", !.hasKey = hasKey,
                           !.contacts = ContactList(n),
                           !.response = [status |-> 400, success |-> FALSE,
                                         data |-> <<>>, apiCalls |-> 0]]
     ELSE IF useBulkAPI(n)
     THEN fn' = [fn EXCEPT !.pc = "bulk", !.hasKey = hasKey,
                           !.contacts = ContactList(n), !.calls = <<n>>]
     ELSE fn' = [fn EXCEPT !.pc = "single", !.hasKey = hasKey,
                           !.contacts = ContactList(n), !.calls = <<1>>]
  /\ UNCHANGED <<uiVars, exported>>

\* POST whose body cannot be read: the outer catch
FnRequestUnreadable ==
  /\ fn.pc = "idle"
  /\ fn' = [fn EXCEPT !.pc = "done",
                      !.response = [status |-> 500, success |-> FALSE,
                                    data |-> <<>>, apiCalls |-> 0]]
  /\ UNCHANGED <<uiVars, exported>>

\* the bulk call returns
FnBulkReturns(up) ==
  /\ fn.pc = "bulk"
  /\ up \in BulkAnswers(Len(fn.contacts))
  /\ IF up.kind = "error"
     THEN fn' = [fn EXCEPT !.pc = "done",
                           !.upstream = <<"error">>,
                           !.response = [status |-> 500, success |-> FALSE,
                                         data |-> <<>>,
                                         apiCalls |-> fn.totalApiCalls]]
     ELSE LET data == enrichContactsBulk(fn.contacts, up)
          IN  fn' = [fn EXCEPT !.pc = "done",
                               !.upstream = <<BulkTag(Len(fn.contacts), up)>>,
                               !.enrichedContacts = data,
                               !.totalApiCalls = fn.totalApiCalls + 1,
                               !.response = [status |-> 200, success |-> TRUE,
                                             data |-> data,
                                             apiCalls |-> fn.totalApiCalls + 1]]
  /\ UNCHANGED <<uiVars, exported>>

\* the call for one contact returns; the loop goes to the next contact or
\* the handler answers
FnSingleReturns(outcome) ==
  /\ fn.pc = "single"
  /\ outcome \in {"person", "bare", "none", "error"}
  /\ Misses(Append(fn.upstream, outcome)) <= MaxMisses
  /\ LET i == Len(fn.enrichedContacts) + 1
         data == Append(fn.enrichedContacts, SingleEntry(fn.contacts[i], outcome))
     IN  IF i < Len(fn.contacts)
         THEN fn' = [fn EXCEPT !.upstream = Append(fn.upstream, outcome),
                               !.enrichedContacts = data,
                               !.totalApiCalls = fn.totalApiCalls + 1,
                               !.calls = Append(fn.calls, 1)]
         ELSE fn' = [fn EXCEPT !.pc = "done",
                               !.upstream = Append(fn.upstream, outcome),
                               !.enrichedContacts = data,
                               !.totalApiCalls = fn.totalApiCalls + 1,
                               !.response = [status |-> 200, success |-> TRUE,
                                             data |-> data,
                                             apiCalls |-> fn.totalApiCalls + 1]]
  /\ UNCHANGED <<uiVars, exported>>

InitFunction == Init

NextFunction ==
  \/ \E hasKey \in BOOLEAN, n \in 0..MaxRequest : FnRequest(hasKey, n)
  \/ FnRequestUnreadable
  \/ \E up \in BulkAnswers(MaxRequest) : FnBulkReturns(up)
  \/ \E outcome \in {"person", "bare", "none", "error"} : FnSingleReturns(outcome)

SpecFunction == InitFunction /\ [][NextFunction]_vars

\* the invocation accepted the request and answered success: true
FnSucceeded == fn.pc = "done" /\ fn.response.success

(* C24: a success answer of the serverless function to an accepted request  *)
(* has exactly one record per submitted contact, in submission order, each  *)
(* keeping the contact's names and with enrichmentStatus 'success' or       *)
(* 'failed', on the bulk and on the one-by-one path, whatever upstream      *)
(* returned.                                                                *)
C24_OneRecordPerContact ==
  FnSucceeded =>
    /\ fn.hasKey /\ fn.contacts # <<>>
    /\ Len(fn.response.data) = Len(fn.contacts)
    /\ \A i \in 1..Len(fn.contacts) :
         /\ fn.response.data[i].id = fn.contacts[i]
         /\ fn.response.data[i].enrichmentStatus \in {"success", "failed"}

(* C24 witness: a bulk request of 3 contacts answered with a matches list   *)
(* shorter than the request, and a success response.                        *)
C24_Witness ==
  /\ FnSucceeded
  /\ fn.calls = <<3>>
  /\ fn.upstream = <<"short">>
  /\ fn.response.data[3].enrichmentStatus = "failed"

====
